---- MODULE Spec2Model ----
(***************************************************************************)
(* Model of the DatabaseReplication tools:                                 *)
(*   - test_replication.py: ReplicationTester.run_full_test (pools, schema,*)
(*     role verification, bulk write, concurrent reads, consistency);      *)
(*   - verify_replication_rate.py: ReplicationRateVerifier / main (lag     *)
(*     probes, rounds, report).                                            *)
(* One behaviour is one run of one of the two programs (variable prog).    *)
(* The datastore client (psycopg2) is the environment: each call on it     *)
(* nondeterministically succeeds or raises.                                *)
(***************************************************************************)
EXTENDS Integers, Sequences, FiniteSets, TLC

(* ------------------------------ bounds -------------------------------- *)
\* load_config_from_env reads REPLICA_1_IP and REPLICA_2_IP: one or two replicas
MaxReplicas == 2
\* --writes / --reads / samples are free integers; bounded here
MaxWrites == 2
MaxReads == 3
MaxSamples == 2
\* record_ids[:10] in verify_data_consistency, scaled to the small id space
ComparePrefix == 2
\* _wait_for_replica: timeout = 10.0 s and time.sleep(0.05), scaled to clock ticks
Timeout == 4
PollInterval == 2
\* lags[host] = -1.0: the indicator for a timeout or a failure
FailedLag == -1
\* time.time() at the start of a round (any positive instant)
Epoch == 1

Hosts == {"h1", "h2"}
Payloads == {"a", "b"}
Tags == {1, 2}
\* the (test_data, random_value) pairs write_data draws from; a replica may hold any
\* pair of Payloads \X Tags for a row
Written == {<<"a", 1>>, <<"b", 2>>}
\* the time the INSERT and the commit of a marker may take, in ticks
InsertDurs == {0, 1}
\* Python's None as a probe's return value
None == -1
\* no value: the local mismatches is not assigned for a replica whose comparison is skipped
NoCount == -1
\* a marker that never becomes visible on a replica
Never == -1

VARIABLES
    prog,            \* "tester" (test_replication.py) or "verifier" (verify_replication_rate.py)
    replica_configs, \* sequence of replica hosts (config.host of each DatabaseConfig)
    num_writes, num_reads, samples,
    pc,              \* position of the main thread
    ran,             \* log of the phases begun, in order
    failedAt,        \* index in ran of the phase that raised, 0 if none
    fault,           \* the call of the datastore client that raised out of a phase, if any
    declined,        \* the operator answered other than 'y' at the prompt
    \* ---- ReplicationTester
    primary_pool,    \* "None" | "open" | "closed"
    replica_pools,   \* sequence of [cfg, st]: pools created so far
    out,             \* connections checked out (getconn without putconn) per pool, 0 = primary
    table,           \* committed rows of replication_test on the primary
    table_exists,    \* the table replication_test exists on the primary
    replica_status,  \* what verify_replica_status found on each replica (until its result is used)
    all_valid,       \* all_valid of verify_replica_status: True until a replica is found bad
    serial,          \* next value of the id SERIAL
    record_ids,      \* ids returned by write_data
    batch,           \* selected_ids handed to each replica's read task
    rpc,             \* position of each replica's read task
    attempts,        \* lookups executed by each read task
    successful_reads,
    elapsed_time,    \* elapsed_time of each read task, once it has returned
    read_results,    \* results dict of concurrent_read_test, keyed by host
    primary_data,    \* dict id -> row fetched from the primary
    cmp_i,           \* index of the next replica to compare
    reports,         \* one entry per replica compared so far
    all_consistent,
    \* ---- ReplicationRateVerifier
    primary_conn,    \* "None" | "open" | "closed"
    replica_conns,   \* sequence of [cfg, st]: connections made so far
    round,           \* i of run_verification's loop, 0 before the first round
    now,             \* time.time(), in ticks
    insert_time,     \* taken by measure_replication_lag before the INSERT is issued
    commit_time,     \* instant the primary acknowledged the commit (not kept by the code)
    delay,           \* per replica: ticks after the commit at which the marker is visible, or Never
    ppc,             \* position of each replica's probe (_wait_for_replica)
    conn_of,         \* per probe: index in replica_conns of the connection it polls, 0 if none
    start_time,      \* start_time of each probe
    wake,            \* instant each probe's next loop test is due (end of its sleep)
    polls,           \* queries each probe has issued in this round
    ret,             \* return value of each probe: an instant, or None
    probe_end,       \* per probe: [at |-> instant it returned, error |-> its last query raised,
                     \*             printed |-> the line it printed]
    sample,          \* per replica: the lag computed from its probe when it was collected
    lags,            \* lags dict of measure_replication_lag, keyed by host
    results,         \* results dict of run_verification: host -> list of lags
    nsamples,        \* number of entries of the lags dicts returned so far
    stats            \* what the results loop of run_verification prints, per host

testerVars == <<primary_pool, replica_pools, out, table, table_exists, replica_status, all_valid,
                serial, record_ids, batch, rpc, attempts, successful_reads, elapsed_time,
                read_results, primary_data, cmp_i, reports, all_consistent>>
verifierVars == <<primary_conn, replica_conns, round, now, insert_time, commit_time, delay,
                  ppc, conn_of, start_time, wake, polls, ret, probe_end, sample, lags, results,
                  nsamples, stats>>
runVars == <<prog, replica_configs, num_writes, num_reads, samples>>
vars == <<prog, replica_configs, num_writes, num_reads, samples, pc, ran, failedAt, fault,
          declined,
          primary_pool, replica_pools, out, table, table_exists, replica_status, all_valid,
          serial, record_ids, batch, rpc, attempts, successful_reads, elapsed_time,
          read_results, primary_data, cmp_i, reports, all_consistent,
          primary_conn, replica_conns, round, now, insert_time, commit_time, delay,
          ppc, conn_of, start_time, wake, polls, ret, probe_end, sample, lags, results,
          nsamples, stats>>

(* ------------------------------ helpers ------------------------------- *)
Range(s) == {s[i] : i \in DOMAIN s}
Replicas == 1..Len(replica_configs)
Pools == 0..MaxReplicas
EmptyDict == [k \in {} |-> 0]
DictPut(d, k, v) == [x \in (DOMAIN d) \cup {k} |-> IF x = k THEN v ELSE d[x]]
Prefix(s, n) == SubSeq(s, 1, IF Len(s) < n THEN Len(s) ELSE n)
Row(i, d, v) == [id |-> i, test_data |-> d, random_value |-> v]

\* replica configurations, up to renaming of hosts (the first host is "h1")
Configs == {c \in UNION {[1..n -> Hosts] : n \in 1..MaxReplicas} : c[1] = "h1"}

\* pool.getconn() / pool.putconn(conn)
getconn(o, p) == [o EXCEPT ![p] = @ + 1]
putconn(o, p) == [o EXCEPT ![p] = @ - 1]

\* a phase raised: the except clause of run_full_test / main prints the error, then the
\* finally clause runs
NoFault == [what |-> "none", at |-> 0]
Abort == /\ pc' = "finally"
         /\ failedAt' = Len(ran')
Raise(what, at) == /\ Abort
                   /\ fault' = [what |-> what, at |-> at]

(* ------------------------------- Init --------------------------------- *)
\* a probe that has not returned: no instant, no query error, nothing printed
NotEnded == [at |-> 0, error |-> FALSE, printed |-> ""]

\* the task, probe and comparison locals before any phase has used them
Idle ==
    /\ failedAt = 0
    /\ fault = NoFault
    /\ declined = FALSE
    /\ out = [p \in Pools |-> 0]
    /\ replica_status = <<>>
    /\ all_valid = TRUE
    /\ record_ids = <<>>
    /\ batch = [r \in Replicas |-> <<>>]
    /\ rpc = [r \in Replicas |-> "idle"]
    /\ attempts = [r \in Replicas |-> 0]
    /\ successful_reads = [r \in Replicas |-> 0]
    /\ elapsed_time = [r \in Replicas |-> 0]
    /\ read_results = EmptyDict
    /\ primary_data = EmptyDict
    /\ cmp_i = 0
    /\ reports = <<>>
    /\ all_consistent = TRUE
    /\ now = Epoch
    /\ insert_time = 0
    /\ commit_time = 0
    /\ delay = [r \in Replicas |-> Never]
    /\ ppc = [r \in Replicas |-> "idle"]
    /\ conn_of = [r \in Replicas |-> 0]
    /\ start_time = [r \in Replicas |-> 0]
    /\ wake = [r \in Replicas |-> 0]
    /\ polls = [r \in Replicas |-> 0]
    /\ ret = [r \in Replicas |-> None]
    /\ probe_end = [r \in Replicas |-> NotEnded]
    /\ sample = [r \in Replicas |-> 0]
    /\ lags = EmptyDict
    /\ stats = EmptyDict

\* what the database of the primary may hold when a run starts: no table, an empty
\* table, or the table a previous run left with a row
Leftover == {[exists |-> FALSE, rows |-> <<>>],
             [exists |-> TRUE, rows |-> <<>>],
             [exists |-> TRUE, rows |-> <<Row(1, "a", 1)>>]}

Init ==
    /\ prog \in {"tester", "verifier"}
    /\ replica_configs \in Configs
    \* run_full_test(num_writes, num_reads) / run_verification(samples)
    /\ num_writes \in IF prog = "tester" THEN 0..MaxWrites ELSE {0}
    /\ num_reads \in IF prog = "tester" THEN 0..MaxReads ELSE {0}
    /\ samples \in IF prog = "verifier" THEN 1..MaxSamples ELSE {0}
    /\ pc = "setup"
    /\ ran = <<>>
    /\ primary_pool = "None"
    /\ replica_pools = <<>>
    /\ \E db \in (IF prog = "tester" THEN Leftover ELSE {[exists |-> TRUE, rows |-> <<>>]}) :
         /\ table = db.rows
         /\ table_exists = db.exists
    /\ serial = Len(table) + 1
    /\ primary_conn = "None"
    /\ replica_conns = <<>>
    /\ round = 0
    /\ results = [h \in Range(replica_configs) |-> <<>>]
    /\ nsamples = 0
    /\ Idle

(* ------------------- ReplicationTester.setup_connections -------------- *)
\* (variant: an endpoint that cannot be reached is skipped and the loop goes on)
SetupOutcome_Isolate(failAt) ==
    [primary |-> "open",
     replicas |-> [i \in 1..Len(replica_configs) |->
                     [cfg |-> i, st |-> IF i = failAt THEN "closed" ELSE "open"]],
     raised |-> FALSE]

\* failAt = 0: the primary pool cannot be created; failAt = i in Replicas: the pool of
\* replica i cannot be created (the earlier ones exist); failAt > Len: every pool is created.
SetupOutcome(failAt) ==
    [primary |-> IF failAt = 0 THEN "None" ELSE "open",
     replicas |-> [i \in 1..(IF failAt = 0 THEN 0
                             ELSE IF failAt \in Replicas THEN failAt - 1
                             ELSE Len(replica_configs))
                   |-> [cfg |-> i, st |-> "open"]],
     raised |-> failAt \in 0..Len(replica_configs)]

setup_connections ==
    /\ prog = "tester" /\ pc = "setup"
    /\ \E failAt \in 0..(Len(replica_configs) + 1) :
         LET o == SetupOutcome(failAt) IN
         /\ primary_pool' = o.primary
         /\ replica_pools' = o.replicas
         /\ ran' = Append(ran, "setup")
         /\ fault' = IF failAt <= Len(replica_configs) THEN [what |-> "connect", at |-> failAt]
                      ELSE fault
         /\ IF o.raised THEN Abort ELSE pc' = "schema" /\ UNCHANGED failedAt
    /\ UNCHANGED <<verifierVars, runVars, table_exists, replica_status, all_valid, declined, out, table, serial, record_ids, batch, rpc, attempts,
                   successful_reads, elapsed_time, read_results, primary_data, cmp_i, reports, all_consistent>>

(* ------------------- ReplicationTester.close_connections -------------- *)
CloseAll(pools) == [i \in DOMAIN pools |-> [pools[i] EXCEPT !.st = "closed"]]

\* (variant: only the primary pool is closed)
close_connections_PrimaryOnly ==
    /\ prog = "tester" /\ pc = "finally"
    /\ primary_pool' = IF primary_pool # "None" THEN "closed" ELSE primary_pool
    /\ pc' = "closed"
    /\ UNCHANGED <<verifierVars, runVars, table_exists, replica_status, all_valid, ran, failedAt, fault, declined, replica_pools, out,
                   table, serial, record_ids, batch, rpc, attempts, successful_reads, elapsed_time,
                   read_results, primary_data, cmp_i, reports, all_consistent>>

close_connections ==
    /\ prog = "tester" /\ pc = "finally"
    /\ primary_pool' = IF primary_pool # "None" THEN "closed" ELSE primary_pool
    /\ replica_pools' = CloseAll(replica_pools)
    /\ pc' = "closed"
    /\ UNCHANGED <<verifierVars, runVars, table_exists, replica_status, all_valid, ran, failedAt, fault, declined, out, table, serial, record_ids, batch,
                   rpc, attempts, successful_reads, elapsed_time, read_results, primary_data, cmp_i,
                   reports, all_consistent>>

(* ------------------- ReplicationTester.create_test_schema ------------- *)
\* outcome "getconn": no connection could be obtained; "ddl": DROP/CREATE/commit raised
\* (rollback, raise, putconn); "ok": the table is dropped and recreated empty.
\* (variant: CREATE TABLE IF NOT EXISTS, without the DROP)
Recreated_IfNotExists(db) == IF db.exists THEN db ELSE [exists |-> TRUE, rows |-> <<>>]

\* DROP TABLE IF EXISTS replication_test CASCADE; CREATE TABLE replication_test (...);
\* CREATE INDEX ...; commit: whatever was there, the table exists and is empty
Recreated(db) == [exists |-> TRUE, rows |-> <<>>]

create_test_schema ==
    /\ prog = "tester" /\ pc = "schema"
    /\ ran' = Append(ran, "schema")
    /\ \E outcome \in {"getconn", "ddl", "ok"} :
         CASE outcome = "getconn" ->
                /\ Raise("getconn", 0)
                /\ UNCHANGED <<out, table, table_exists, serial>>
           [] outcome = "ddl" ->
                \* conn.rollback(): the DDL of the transaction is undone
                /\ out' = putconn(getconn(out, 0), 0)
                /\ Raise("ddl", 0)
                /\ UNCHANGED <<table, table_exists, serial>>
           [] OTHER ->
                LET db == Recreated([exists |-> table_exists, rows |-> table]) IN
                /\ out' = putconn(getconn(out, 0), 0)
                /\ table' = db.rows
                /\ table_exists' = db.exists
                \* the SERIAL of a table that was created anew starts at 1
                /\ serial' = IF db.rows = <<>> THEN 1 ELSE serial
                /\ pc' = "verify"
                /\ UNCHANGED <<failedAt, fault>>
    /\ UNCHANGED <<verifierVars, runVars, replica_status, all_valid, declined, primary_pool, replica_pools, record_ids, batch, rpc,
                   attempts, successful_reads, elapsed_time, read_results, primary_data, cmp_i, reports,
                   all_consistent>>

(* ------------------- ReplicationTester.verify_replica_status ---------- *)
\* status of each replica: "recovery", "primary" (pg_is_in_recovery() is false) or "error"
\* (the status query raised; caught per replica). all_valid is False as soon as one is bad.
AllValid(status) == \A i \in DOMAIN status : status[i] = "recovery"

\* the loop's getconn ... finally putconn on each replica pool in turn
RECURSIVE BorrowEach(_, _, _)
BorrowEach(o, i, n) == IF i > n THEN o ELSE BorrowEach(putconn(getconn(o, i), i), i + 1, n)

\* (variant: the loop breaks at the first replica that is not valid)
Observed_StopAtFirstBad(status) ==
    [i \in DOMAIN status |-> IF \E j \in 1..(i - 1) : status[j] # "recovery" THEN "unchecked"
                             ELSE status[i]]

\* for replica_config, replica_pool in self.replica_pools, without a break: the status
\* query is issued on every replica, whatever the earlier ones answered
Observed(status) == status

verify_replica_status ==
    /\ prog = "tester" /\ pc = "verify"
    /\ ran' = Append(ran, "verify")
    /\ \E failAt \in 0..Len(replica_pools),
          status \in [DOMAIN replica_pools -> {"recovery", "primary", "error"}] :
         IF failAt # 0
         THEN \* getconn raised on replica failAt, the earlier replicas were checked
              /\ out' = BorrowEach(out, 1, failAt - 1)
              /\ Raise("getconn", failAt)
              /\ UNCHANGED <<replica_status, all_valid>>
         ELSE /\ out' = BorrowEach(out, 1, Len(replica_pools))
              /\ replica_status' = Observed(status)
              /\ all_valid' = AllValid(Observed(status))
              /\ pc' = IF all_valid' THEN "write" ELSE "prompt"
              /\ UNCHANGED <<failedAt, fault>>
    /\ UNCHANGED <<verifierVars, runVars, table_exists, declined, primary_pool, replica_pools, table, serial, record_ids,
                   batch, rpc, attempts, successful_reads, elapsed_time, read_results, primary_data, cmp_i,
                   reports, all_consistent>>

\* run_full_test: input("Continue anyway? (y/n): "); anything but 'y' returns; on a closed
\* standard input, input() raises EOFError ("eof"), which the except clause catches.
\* The locals of verify_replica_status (the statuses found, all_valid) are gone once its
\* result has been used here.
prompt ==
    /\ prog = "tester" /\ pc = "prompt"
    /\ UNCHANGED ran
    /\ \E response \in {"y", "n", "eof"} :
         IF response = "eof"
         THEN /\ Raise("input", 0)
              /\ UNCHANGED declined
         ELSE /\ declined' = (response # "y")
              /\ pc' = IF response # "y" THEN "finally" ELSE "write"
              /\ UNCHANGED <<failedAt, fault>>
    /\ replica_status' = <<>>
    /\ all_valid' = TRUE
    /\ UNCHANGED <<verifierVars, runVars, primary_pool, replica_pools, out, table, table_exists,
                   serial, record_ids, batch, rpc, attempts, successful_reads, elapsed_time,
                   read_results, primary_data, cmp_i, reports, all_consistent>>

(* ------------------- ReplicationTester.write_data --------------------- *)
\* failAt = 0: getconn raised; failAt in 1..N: insert number failAt raised;
\* failAt = N + 1: commit raised; failAt = N + 2: every insert and the commit succeeded.
\* The SERIAL advances for every executed insert, rolled back or not.
InsertedRows(first, rows) == [j \in DOMAIN rows |-> Row(first + j - 1, rows[j][1], rows[j][2])]

\* (variant: the rows inserted before the failure stay)
Rollback_KeepsExecuted(committed, pending) == committed \o pending

\* conn.rollback(): the rows the open transaction inserted are discarded
Rollback(committed, pending) == committed

\* (variant: the identifiers are returned last first)
ReturnedIds_Reversed(inserted) ==
    [j \in DOMAIN inserted |-> inserted[Len(inserted) + 1 - j].id]

\* inserted_ids.append(cur.fetchone()[0]) after each INSERT ... RETURNING id
ReturnedIds(inserted) == [j \in DOMAIN inserted |-> inserted[j].id]

write_data ==
    /\ prog = "tester" /\ pc = "write"
    /\ ran' = Append(ran, "write")
    /\ \E failAt \in 0..(num_writes + 2), rows \in [1..num_writes -> Written] :
         IF failAt = 0
         THEN /\ Raise("getconn", 0)
              /\ UNCHANGED <<out, table, serial, record_ids>>
         ELSE IF failAt <= num_writes + 1
         THEN LET executed == IF failAt <= num_writes THEN failAt - 1 ELSE num_writes IN
              /\ out' = putconn(getconn(out, 0), 0)
              /\ serial' = serial + executed
              /\ table' = Rollback(table, InsertedRows(serial, SubSeq(rows, 1, executed)))
              /\ Raise("insert", failAt)
              /\ UNCHANGED record_ids
         ELSE /\ out' = putconn(getconn(out, 0), 0)
              /\ table' = table \o InsertedRows(serial, rows)
              /\ serial' = serial + num_writes
              /\ record_ids' = ReturnedIds(InsertedRows(serial, rows))
              /\ pc' = "settle"
              /\ UNCHANGED <<failedAt, fault>>
    \* run_full_test holds nothing of verify_replica_status beyond the `if not`
    /\ replica_status' = <<>>
    /\ all_valid' = TRUE
    /\ UNCHANGED <<verifierVars, runVars, table_exists, declined, primary_pool, replica_pools,
                   batch, rpc, attempts, successful_reads, elapsed_time, read_results, primary_data, cmp_i,
                   reports, all_consistent>>

\* run_full_test: time.sleep(wait_for_replication)
settle ==
    /\ prog = "tester" /\ pc = "settle"
    /\ ran' = Append(ran, "settle")
    /\ pc' = "read"
    /\ UNCHANGED <<verifierVars, runVars, failedAt, fault, declined, testerVars>>

(* ------------------- ReplicationTester.concurrent_read_test ----------- *)
\* (variant: the division rounded up)
ReadsPerReplica_RoundUp(num_operations, nreplicas) == (num_operations + nreplicas - 1) \div nreplicas

\* reads_per_replica = num_operations // len(self.replica_pools)
ReadsPerReplica(num_operations, nreplicas) == num_operations \div nreplicas

\* random.choices(record_ids, k): k draws with replacement; IndexError on an empty list
Choices(ids, k) == [1..k -> Range(ids)]

\* the loop that draws selected_ids and submits one read_from_replica task per replica
dispatch_reads ==
    /\ prog = "tester" /\ pc = "read"
    /\ ran' = Append(ran, "read")
    /\ LET k == ReadsPerReplica(num_reads, Len(replica_pools)) IN
       IF k > 0 /\ record_ids = <<>>
       THEN /\ Raise("choices", 0)
            /\ UNCHANGED <<batch, rpc>>
       ELSE /\ batch' \in [Replicas -> Choices(record_ids, k)]
            /\ rpc' = [r \in Replicas |-> "submitted"]
            /\ pc' = "read_wait"
            /\ UNCHANGED <<failedAt, fault>>
    /\ UNCHANGED <<verifierVars, runVars, table_exists, replica_status, all_valid, declined, primary_pool, replica_pools, out, table, serial,
                   record_ids, attempts, successful_reads, elapsed_time, read_results, primary_data, cmp_i,
                   reports, all_consistent>>

ReadPhase == pc \in {"read_wait", "read_exc"}

(* ------------------- ReplicationTester.read_from_replica -------------- *)
\* conn = replica_pool.getconn(), outside the try: a failure raises out of the task
read_start(r) ==
    /\ prog = "tester" /\ ReadPhase /\ rpc[r] = "submitted"
    /\ \E ok \in BOOLEAN :
         IF ok
         THEN /\ out' = getconn(out, r)
              /\ rpc' = [rpc EXCEPT ![r] = "run"]
         ELSE /\ rpc' = [rpc EXCEPT ![r] = "raised"]
              /\ UNCHANGED out
    /\ UNCHANGED <<verifierVars, runVars, table_exists, replica_status, all_valid, pc, ran, failedAt, fault, declined, primary_pool, replica_pools, table,
                   serial, record_ids, batch, attempts, successful_reads, elapsed_time, read_results,
                   primary_data, cmp_i, reports, all_consistent>>

\* elapsed_time = time.time() - start_time of a task, in ticks: in a run every lookup
\* executed takes one tick and nothing else takes time (0 for a task without lookups)
Elapsed(lookups) == lookups

\* what one lookup does to the task: "row" counts a success, "norow" does not, "error"
\* (cur.execute raised) leaves the for loop through the except clause around it
AfterLookup(res, position) == IF res = "error" THEN "done" ELSE position

\* (variant: the connection is returned at the end of the loop only, not after an error)
TaskFinally_NotOnError(o, r, res) == IF res = "error" THEN o ELSE putconn(o, r)

\* finally: replica_pool.putconn(conn), on every way out of the try block
TaskFinally(o, r, res) == putconn(o, r)

\* one cur.execute / cur.fetchone of the for loop; after the last one, or after an error,
\* the finally clause returns the connection and the task returns
read_lookup(r) ==
    /\ prog = "tester" /\ ReadPhase /\ rpc[r] = "run"
    /\ attempts[r] < Len(batch[r])
    /\ \E res \in {"row", "norow", "error"} :
         /\ attempts' = [attempts EXCEPT ![r] = @ + 1]
         /\ successful_reads' = [successful_reads EXCEPT ![r] = IF res = "row" THEN @ + 1 ELSE @]
         /\ rpc' = [rpc EXCEPT ![r] = AfterLookup(res, IF attempts'[r] = Len(batch[r])
                                                       THEN "done" ELSE "run")]
         /\ out' = IF rpc'[r] = "done" THEN TaskFinally(out, r, res) ELSE out
         /\ elapsed_time' = IF rpc'[r] = "done"
                            THEN [elapsed_time EXCEPT ![r] = Elapsed(attempts'[r])]
                            ELSE elapsed_time
    /\ UNCHANGED <<verifierVars, runVars, table_exists, replica_status, all_valid, pc, ran, failedAt, fault, declined, primary_pool, replica_pools, table,
                   serial, record_ids, batch, read_results, primary_data, cmp_i, reports,
                   all_consistent>>

\* a task with an empty batch: the loop body never runs
read_empty(r) ==
    /\ prog = "tester" /\ ReadPhase /\ rpc[r] = "run"
    /\ Len(batch[r]) = 0
    /\ rpc' = [rpc EXCEPT ![r] = "done"]
    /\ out' = putconn(out, r)
    /\ elapsed_time' = [elapsed_time EXCEPT ![r] = Elapsed(attempts[r])]
    /\ UNCHANGED <<verifierVars, runVars, table_exists, replica_status, all_valid, pc, ran, failedAt, fault, declined, primary_pool, replica_pools, table,
                   serial, record_ids, batch, attempts, successful_reads, read_results,
                   primary_data, cmp_i, reports, all_consistent>>

\* (variant: the division is made whatever elapsed_time is; dividing by 0.0 raises,
\* shown as the quotient with denominator 0)
ReadsPerSecond_Unguarded(successes, elapsed) == [num |-> successes, den |-> elapsed]

\* 'reads_per_second': successful_reads / elapsed_time if elapsed_time > 0 else 0, as the
\* quotient num / den
ReadsPerSecond(successes, elapsed) ==
    IF elapsed > 0 THEN [num |-> successes, den |-> elapsed] ELSE [num |-> 0, den |-> 1]

\* the entry results[host] built from what a task returned
ReadOutcome(successes, elapsed) ==
    [successful_reads |-> successes, elapsed_time |-> elapsed,
     reads_per_second |-> ReadsPerSecond(successes, elapsed)]

\* for future in as_completed(futures): results[host] = {...}; future.result() re-raises
\* what the task raised
collect_read(r) ==
    /\ prog = "tester" /\ pc = "read_wait" /\ rpc[r] \in {"done", "raised"}
    /\ IF rpc[r] = "done"
       THEN /\ read_results' = DictPut(read_results, replica_configs[r],
                                       ReadOutcome(successful_reads[r], elapsed_time[r]))
            /\ rpc' = [rpc EXCEPT ![r] = "collected"]
            /\ pc' = pc
       ELSE /\ pc' = "read_exc"
            /\ UNCHANGED <<read_results, rpc>>
    /\ UNCHANGED <<verifierVars, runVars, table_exists, replica_status, all_valid, ran, failedAt, fault, declined, primary_pool, replica_pools, out, table,
                   serial, record_ids, batch, attempts, successful_reads, elapsed_time, primary_data, cmp_i,
                   reports, all_consistent>>

\* (variant: the block is left without waiting for the tasks)
TasksJoined_NoWait == TRUE

\* leaving the with ThreadPoolExecutor block: shutdown(wait=True) joins every task
TasksJoined == \A r \in Replicas : rpc[r] \in {"done", "raised", "collected"}

join_reads ==
    /\ prog = "tester" /\ ReadPhase /\ TasksJoined
    /\ UNCHANGED ran
    /\ IF pc = "read_exc"
       THEN Raise("task", 0)
       ELSE /\ \A r \in Replicas : rpc[r] = "collected"
            /\ pc' = "consistency"
            /\ UNCHANGED <<failedAt, fault>>
    \* the tasks' locals (selected_ids, successful_reads) die with the tasks
    /\ batch' = [r \in Replicas |-> <<>>]
    /\ attempts' = [r \in Replicas |-> 0]
    /\ successful_reads' = [r \in Replicas |-> 0]
    /\ elapsed_time' = [r \in Replicas |-> 0]
    /\ rpc' = [r \in Replicas |-> "idle"]
    /\ UNCHANGED <<verifierVars, runVars, table_exists, replica_status, all_valid, declined, primary_pool, replica_pools, out, table, serial,
                   record_ids, read_results, primary_data, cmp_i, reports, all_consistent>>

(* ------------------- ReplicationTester.verify_data_consistency -------- *)
\* SELECT ... WHERE id = ANY(ids) on the primary: the committed rows with those ids
PrimaryRows(ids) ==
    LET hit == {i \in DOMAIN table : table[i].id \in Range(ids)}
    IN  [k \in {table[i].id : i \in hit} |->
           LET i == CHOOSE j \in hit : table[j].id = k
           IN  [test_data |-> table[i].test_data, random_value |-> table[i].random_value]]

fetch_primary ==
    /\ prog = "tester" /\ pc = "consistency"
    /\ ran' = Append(ran, "consistency")
    /\ \E outcome \in {"getconn", "query", "ok"} :
         CASE outcome = "getconn" ->
                /\ Raise("getconn", 0)
                /\ UNCHANGED <<out, primary_data, cmp_i>>
           [] outcome = "query" ->
                /\ out' = putconn(getconn(out, 0), 0)
                /\ Raise("query", 0)
                /\ UNCHANGED <<primary_data, cmp_i>>
           [] OTHER ->
                /\ out' = putconn(getconn(out, 0), 0)
                /\ primary_data' = PrimaryRows(Prefix(record_ids, ComparePrefix))
                /\ cmp_i' = 1
                /\ pc' = "compare"
                /\ UNCHANGED <<failedAt, fault>>
    /\ UNCHANGED <<verifierVars, runVars, table_exists, replica_status, all_valid, declined, primary_pool, replica_pools, table, serial, record_ids,
                   batch, rpc, attempts, successful_reads, elapsed_time, read_results, reports,
                   all_consistent>>

\* what a replica may answer to WHERE id = ANY(keys): any subset of the keys, any values
ReplicaAnswers(keys) == UNION {[S -> [test_data : Payloads, random_value : Tags]] : S \in SUBSET keys}

\* (variant: the tag is not compared)
RecordDiffers_PayloadOnly(primary_record, replica_record) ==
    primary_record.test_data # replica_record.test_data

\* the field comparison of one row
RecordDiffers(primary_record, replica_record) ==
    \/ primary_record.test_data # replica_record.test_data
    \/ primary_record.random_value # replica_record.random_value

\* the for loop over primary_data.items() that counts mismatches
Mismatches(pdata, rdata) ==
    Cardinality({k \in DOMAIN pdata :
                    \/ k \notin DOMAIN rdata
                    \/ RecordDiffers(pdata[k], rdata[k])})

\* (variant: no early continue on a record-count mismatch)
CompareReplica_NoContinue(pdata, rdata) ==
    [count_mismatch |-> Cardinality(DOMAIN rdata) # Cardinality(DOMAIN pdata),
     mismatches |-> Mismatches(pdata, rdata),
     consistent |-> Cardinality(DOMAIN rdata) = Cardinality(DOMAIN pdata)
                    /\ Mismatches(pdata, rdata) = 0]

\* the body of the per-replica loop once the rows are fetched: a record-count mismatch
\* prints, clears all_consistent and continues with the next replica (no field comparison)
CompareReplica(pdata, rdata) ==
    IF Cardinality(DOMAIN rdata) # Cardinality(DOMAIN pdata)
    THEN [count_mismatch |-> TRUE, mismatches |-> NoCount, consistent |-> FALSE]
    ELSE [count_mismatch |-> FALSE, mismatches |-> Mismatches(pdata, rdata),
          consistent |-> Mismatches(pdata, rdata) = 0]

\* the ids a replica returned with a payload or a tag other than the primary's
\* (recorded with each report, for reference)
Differing(pdata, rdata) ==
    {k \in (DOMAIN pdata) \cap (DOMAIN rdata) :
        pdata[k].test_data # rdata[k].test_data \/ pdata[k].random_value # rdata[k].random_value}

\* one iteration of "for replica_config, replica_pool in self.replica_pools"; a report
\* holds what the iteration printed (count_mismatch, mismatches)
compare_replica ==
    /\ prog = "tester" /\ pc = "compare" /\ cmp_i <= Len(replica_pools)
    /\ UNCHANGED ran
    /\ \E outcome \in {"getconn", "query", "ok"} :
         CASE outcome = "getconn" ->
                /\ Raise("getconn", cmp_i)
                /\ UNCHANGED <<out, cmp_i, reports, all_consistent>>
           [] outcome = "query" ->
                /\ out' = putconn(getconn(out, cmp_i), cmp_i)
                /\ Raise("query", cmp_i)
                /\ UNCHANGED <<cmp_i, reports, all_consistent>>
           [] OTHER ->
                \E rdata \in ReplicaAnswers(DOMAIN primary_data) :
                  LET rep == CompareReplica(primary_data, rdata) IN
                  /\ out' = putconn(getconn(out, cmp_i), cmp_i)
                  /\ reports' = Append(reports, [replica |-> cmp_i,
                                                 returned |-> DOMAIN rdata,
                                                 differing |-> Differing(primary_data, rdata),
                                                 count_mismatch |-> rep.count_mismatch,
                                                 mismatches |-> rep.mismatches])
                  /\ all_consistent' = (all_consistent /\ rep.consistent)
                  /\ cmp_i' = cmp_i + 1
                  /\ pc' = pc
                  /\ UNCHANGED <<failedAt, fault>>
    /\ UNCHANGED <<verifierVars, runVars, table_exists, replica_status, all_valid, declined, primary_pool, replica_pools, table, serial,
                   record_ids, batch, rpc, attempts, successful_reads, elapsed_time, read_results,
                   primary_data>>

\* return all_consistent
compare_done ==
    /\ prog = "tester" /\ pc = "compare" /\ cmp_i > Len(replica_pools)
    /\ pc' = "summary"
    /\ UNCHANGED <<verifierVars, runVars, ran, failedAt, fault, declined, testerVars>>

\* run_full_test: the TEST SUMMARY prints, then the finally clause
summary ==
    /\ prog = "tester" /\ pc = "summary"
    /\ ran' = Append(ran, "summary")
    /\ pc' = "finally"
    /\ UNCHANGED <<verifierVars, runVars, failedAt, fault, declined, testerVars>>

(* =================== verify_replication_rate.py ======================= *)
(* ------------------- ReplicationRateVerifier.close_connections -------- *)
\* conn.close() on the primary connection and on every connection of replica_conns
ClosedConns(conns) == [i \in DOMAIN conns |-> [conns[i] EXCEPT !.st = "closed"]]
ClosedPrimary(conn) == IF conn # "None" THEN "closed" ELSE conn

(* ------------------- ReplicationRateVerifier.setup_connections -------- *)
\* failAt as in SetupOutcome; on a failure the except clause calls close_connections()
\* and re-raises, and main's finally clause then runs
Verifier_setup_connections ==
    /\ prog = "verifier" /\ pc = "setup"
    /\ ran' = Append(ran, "setup")
    /\ \E failAt \in 0..(Len(replica_configs) + 1) :
         LET o == SetupOutcome(failAt) IN
         /\ fault' = IF failAt <= Len(replica_configs) THEN [what |-> "connect", at |-> failAt]
                      ELSE fault
         /\ IF o.raised
            THEN /\ primary_conn' = ClosedPrimary(o.primary)
                 /\ replica_conns' = ClosedConns(o.replicas)
                 /\ Abort
            ELSE /\ primary_conn' = o.primary
                 /\ replica_conns' = o.replicas
                 /\ pc' = "round"
                 /\ UNCHANGED failedAt
    /\ UNCHANGED <<testerVars, runVars, stats, conn_of, declined, round, now, insert_time, commit_time, delay,
                   ppc, start_time, wake, polls, ret, probe_end, sample, lags, results,
                   nsamples>>

\* main's finally clause: verifier.close_connections()
Verifier_close_connections ==
    /\ prog = "verifier" /\ pc = "finally"
    /\ primary_conn' = ClosedPrimary(primary_conn)
    /\ replica_conns' = ClosedConns(replica_conns)
    /\ pc' = "closed"
    /\ UNCHANGED <<testerVars, runVars, stats, conn_of, ran, failedAt, fault, declined, round, now, insert_time,
                   commit_time, delay, ppc, start_time, wake, polls, ret, probe_end, sample,
                   lags, results, nsamples>>

(* ------------------- ReplicationRateVerifier.measure_replication_lag -- *)
\* The first half of a round: insert_time = time.time(); INSERT; commit; then one
\* _wait_for_replica task is submitted per connection of replica_conns.
\* dur is the time the INSERT and the commit take; the clock of each round is counted
\* from Epoch (only differences of instants of one round are ever used).
Delays == (0..(Timeout - 1)) \cup {Never}

\* (variant: every task is handed the first connection)
ProbeConn_First(r) == 1

\* executor.submit(self._wait_for_replica, config, conn, test_uuid) for config, conn in
\* self.replica_conns: the r-th task polls the connection of the r-th pair
ProbeConn(r) == r

begin_round ==
    /\ prog = "verifier" /\ pc = "round" /\ round < samples
    /\ round' = round + 1
    /\ ran' = Append(ran, "lag")
    /\ insert_time' = Epoch
    /\ \E dur \in InsertDurs, ok \in BOOLEAN :
         /\ now' = Epoch + dur
         /\ IF ok
            THEN /\ commit_time' = now'
                 /\ delay' \in [Replicas -> Delays]
                 /\ ppc' = [r \in Replicas |-> "wait"]
                 /\ conn_of' = [r \in Replicas |-> ProbeConn(r)]
                 /\ start_time' = [r \in Replicas |-> now']
                 /\ wake' = [r \in Replicas |-> now']
                 /\ pc' = "probing"
                 /\ UNCHANGED <<failedAt, fault>>
            ELSE \* rollback, raise
                 /\ Raise("insert", round')
                 /\ UNCHANGED <<commit_time, delay, ppc, conn_of, start_time, wake>>
    /\ UNCHANGED <<testerVars, runVars, stats, declined, primary_conn, replica_conns, polls, ret,
                   probe_end, sample, lags, results, nsamples>>

(* ------------------- ReplicationRateVerifier._wait_for_replica -------- *)
\* (variant: the loop gives up one poll interval early)
InTime_Early(t, start) == t - start < Timeout - PollInterval

\* while time.time() - start_time < timeout
InTime(t, start) == t - start < Timeout

\* the marker row is visible on replica r at instant t
Visible(r, t) == delay[r] # Never /\ t >= commit_time + delay[r]

\* (variant: a query error is swallowed and the probe polls again after the interval)
PollOutcome_Retry(error, visible) == IF visible /\ ~error THEN "found" ELSE "sleep"

\* the body of the loop: except Exception returns None ("error"), if cur.fetchone()
\* returns time.time() ("found"), else time.sleep(0.05) ("sleep")
PollOutcome(error, visible) == IF error THEN "error" ELSE IF visible THEN "found" ELSE "sleep"

\* print(f"Error polling {replica_config.host}: {e}") in the except clause; nothing is
\* printed when the row is found, before a sleep, or when the loop test fails
Printed(o) == IF o = "error" THEN "Error polling" ELSE ""

\* (variant: a probe that fails ends the probes of its siblings too)
TaskDone_CancelSiblings(positions, r) ==
    [q \in DOMAIN positions |-> IF positions[q] = "wait" THEN "done" ELSE positions[q]]

\* return time.time() / return None: the task of probe r is done, the other tasks of the
\* executor go on
TaskDone(positions, r) == [positions EXCEPT ![r] = "done"]

\* One turn of the loop of probe r, due when its sleep is over: the loop test, then the
\* SELECT. A query error returns None at once, a row returns time.time(), no row sleeps
\* for the poll interval; a failed loop test returns None (timed out). Queries take no time.
probe_poll(r) ==
    /\ prog = "verifier" /\ pc = "probing"
    /\ ppc[r] = "wait" /\ now >= wake[r]
    /\ IF InTime(now, start_time[r])
       THEN \E error \in BOOLEAN :
              LET o == PollOutcome(error, Visible(r, now)) IN
              /\ polls' = [polls EXCEPT ![r] = @ + 1]
              /\ probe_end' = [probe_end EXCEPT ![r] = [at |-> IF o = "sleep" THEN @.at ELSE now,
                                                        error |-> error,
                                                        printed |-> Printed(o)]]
              /\ CASE o = "error" ->
                        /\ ret' = [ret EXCEPT ![r] = None]
                        /\ ppc' = TaskDone(ppc, r)
                        /\ UNCHANGED wake
                   [] o = "found" ->
                        /\ ret' = [ret EXCEPT ![r] = now]
                        /\ ppc' = TaskDone(ppc, r)
                        /\ UNCHANGED wake
                   [] OTHER ->
                        /\ wake' = [wake EXCEPT ![r] = now + PollInterval]
                        /\ UNCHANGED <<ret, ppc>>
       ELSE /\ ret' = [ret EXCEPT ![r] = None]
            /\ ppc' = TaskDone(ppc, r)
            /\ probe_end' = [probe_end EXCEPT ![r] = [at |-> now, error |-> FALSE,
                                                      printed |-> Printed("timeout")]]
            /\ UNCHANGED <<wake, polls>>
    /\ UNCHANGED <<testerVars, runVars, stats, conn_of, pc, ran, failedAt, fault, declined,
                   primary_conn, replica_conns, round, now, insert_time, commit_time, delay,
                   start_time, sample, lags, results, nsamples>>

\* time passes while every running probe sleeps
tick ==
    /\ prog = "verifier" /\ pc = "probing"
    /\ \E r \in Replicas : ppc[r] = "wait"
    /\ \A r \in Replicas : ppc[r] = "wait" => now < wake[r]
    /\ now' = now + 1
    /\ UNCHANGED <<testerVars, runVars, stats, conn_of, pc, ran, failedAt, fault, declined, primary_conn,
                   replica_conns, round, insert_time, commit_time, delay, ppc, start_time,
                   wake, polls, ret, probe_end, sample, lags, results, nsamples>>

\* if detection_time: a float is true unless it is 0.0; None is false
Truthy(x) == x # None /\ x # 0

\* lag = detection_time - insert_time, or -1.0 for a timeout / a failure
LagOf(detection_time, inserted) == IF Truthy(detection_time) THEN detection_time - inserted ELSE FailedLag

\* for future in as_completed(future_to_host): lags[host] = ...
collect_lag(r) ==
    /\ prog = "verifier" /\ pc = "probing" /\ ppc[r] = "done"
    /\ lags' = DictPut(lags, replica_configs[r], LagOf(ret[r], insert_time))
    /\ sample' = [sample EXCEPT ![r] = LagOf(ret[r], insert_time)]
    /\ ppc' = [ppc EXCEPT ![r] = "collected"]
    /\ UNCHANGED <<testerVars, runVars, stats, conn_of, pc, ran, failedAt, fault, declined, primary_conn,
                   replica_conns, round, now, insert_time, commit_time, delay, start_time,
                   wake, polls, ret, probe_end, results, nsamples>>

(* ------------------- ReplicationRateVerifier.run_verification --------- *)
\* if lag >= 0: results[host].append(lag)
IsSuccess(lag) == lag >= 0

Recorded(res, ls) ==
    [h \in DOMAIN res |-> IF h \in DOMAIN ls /\ IsSuccess(ls[h]) THEN Append(res[h], ls[h])
                          ELSE res[h]]

\* measure_replication_lag returns lags (every future was collected); the loop body of
\* run_verification files the successes and sleeps 0.5 s before the next round
\* (variant: the with block is left as soon as one future is collected)
AllCollected_Any == \E r \in Replicas : ppc[r] = "collected"

\* the as_completed loop has seen every future, and the with ThreadPoolExecutor block is
\* left (shutdown(wait=True))
AllCollected == \A r \in Replicas : ppc[r] = "collected"

end_round ==
    /\ prog = "verifier" /\ pc = "probing"
    /\ AllCollected
    /\ results' = Recorded(results, lags)
    /\ nsamples' = nsamples + Cardinality(DOMAIN lags)
    /\ pc' = "round"
    \* the round's locals die with the call
    /\ ppc' = [r \in Replicas |-> "idle"]
    /\ conn_of' = [r \in Replicas |-> 0]
    /\ now' = Epoch
    /\ insert_time' = 0
    /\ commit_time' = 0
    /\ delay' = [r \in Replicas |-> Never]
    /\ start_time' = [r \in Replicas |-> 0]
    /\ wake' = [r \in Replicas |-> 0]
    /\ polls' = [r \in Replicas |-> 0]
    /\ ret' = [r \in Replicas |-> None]
    /\ probe_end' = [r \in Replicas |-> NotEnded]
    /\ sample' = [r \in Replicas |-> 0]
    /\ lags' = EmptyDict
    /\ UNCHANGED <<testerVars, runVars, stats, ran, failedAt, fault, declined, primary_conn,
                   replica_conns, round>>

(* ------------------- run_verification: the results loop --------------- *)
\* (variant: the list is indexed as it is, unsorted)
sorted_Not(s) == s

\* sorted(lags): ascending
RECURSIVE InsertSorted(_, _)
InsertSorted(x, s) ==
    IF s = <<>> THEN <<x>>
    ELSE IF x < Head(s) THEN <<x>> \o s
    ELSE <<Head(s)>> \o InsertSorted(x, Tail(s))

RECURSIVE SortedPrefix(_, _)
SortedPrefix(s, n) == IF n = 0 THEN <<>> ELSE InsertSorted(s[n], SortedPrefix(s, n - 1))

sorted(s) == SortedPrefix(s, Len(s))

\* min(lags), max(lags), and the sum statistics.mean(lags) divides by len(lags)
min(s) == CHOOSE x \in Range(s) : \A y \in Range(s) : x <= y
max(s) == CHOOSE x \in Range(s) : \A y \in Range(s) : y <= x
RECURSIVE SumPrefix(_, _)
SumPrefix(s, n) == IF n = 0 THEN 0 ELSE s[n] + SumPrefix(s, n - 1)

\* int(len(lags) * 0.95): the double nearest to 0.95 is below 0.95 by less than half an
\* ulp of the product, so the product rounds to 19 n / 20 when that is an integer and
\* truncates to its floor otherwise
P95Index(n) == (n * 95) \div 100

\* p95_lag = sorted(lags)[int(len(lags) * 0.95)] if len(lags) > 1 else max_lag
\* (Python indexes from 0, a sequence from 1)
P95(ls) == IF Len(ls) > 1 THEN sorted(ls)[P95Index(Len(ls)) + 1] ELSE max(ls)

\* one turn of "for host, lags in results.items()": FAILED and continue for an empty
\* list, else Samples n/samples, average, min, max and 95th percentile
HostStats(ls, out_of) ==
    IF ls = <<>>
    THEN [failed |-> TRUE, n |-> 0, out_of |-> out_of, total |-> None, min_lag |-> None,
          max_lag |-> None, p95_lag |-> None]
    ELSE [failed |-> FALSE, n |-> Len(ls), out_of |-> out_of, total |-> SumPrefix(ls, Len(ls)),
          min_lag |-> min(ls), max_lag |-> max(ls), p95_lag |-> P95(ls)]

\* after the last round: the REPLICATION LAG RESULTS print, then main's finally clause
report ==
    /\ prog = "verifier" /\ pc = "round" /\ round = samples
    /\ ran' = Append(ran, "report")
    /\ stats' = [h \in DOMAIN results |-> HostStats(results[h], samples)]
    /\ pc' = "finally"
    /\ UNCHANGED <<testerVars, runVars, failedAt, fault, declined, primary_conn, replica_conns,
                   round, now, insert_time, commit_time, delay, ppc, conn_of, start_time, wake,
                   polls, ret, probe_end, sample, lags, results, nsamples>>

Next ==
    \/ setup_connections
    \/ create_test_schema
    \/ verify_replica_status
    \/ prompt
    \/ write_data
    \/ settle
    \/ dispatch_reads
    \/ \E r \in Replicas : read_start(r)
    \/ \E r \in Replicas : read_lookup(r)
    \/ \E r \in Replicas : read_empty(r)
    \/ \E r \in Replicas : collect_read(r)
    \/ join_reads
    \/ fetch_primary
    \/ compare_replica
    \/ compare_done
    \/ summary
    \/ Verifier_setup_connections
    \/ Verifier_close_connections
    \/ begin_round
    \/ \E r \in Replicas : probe_poll(r)
    \/ tick
    \/ \E r \in Replicas : collect_lag(r)
    \/ end_round
    \/ report
    \/ close_connections

Spec == Init /\ [][Next]_vars

(* ------------- create_test_schema called several times in succession -- *)
\* calls of create_test_schema made one after the other on the same tester
MaxSchemaRuns == 3

\* the tables a previous write_data(n) may have left on the primary
LeftoverTables ==
    {InsertedRows(1, rows) : rows \in UNION {[1..n -> Written] : n \in 0..MaxWrites}}

\* a tester whose pools are open (setup_connections has returned), over any database
InitSchema ==
    /\ prog = "tester"
    /\ replica_configs \in Configs
    /\ num_writes = 0 /\ num_reads = 0 /\ samples = 0
    /\ pc = "schema"
    /\ ran = <<"setup">>
    /\ primary_pool = "open"
    /\ replica_pools = SetupOutcome(Len(replica_configs) + 1).replicas
    /\ \/ table_exists = FALSE /\ table = <<>>
       \/ table_exists = TRUE /\ table \in LeftoverTables
    /\ serial = Len(table) + 1
    /\ primary_conn = "None"
    /\ replica_conns = <<>>
    /\ round = 0
    /\ results = [h \in Range(replica_configs) |-> <<>>]
    /\ nsamples = 0
    /\ Idle

SchemaRuns == Cardinality({i \in DOMAIN ran : ran[i] = "schema"})

\* create_test_schema has returned and is called again
call_again ==
    /\ prog = "tester" /\ pc = "verify"
    /\ SchemaRuns < MaxSchemaRuns
    /\ pc' = "schema"
    /\ UNCHANGED <<verifierVars, runVars, ran, failedAt, fault, declined, testerVars>>

NextSchema ==
    \/ create_test_schema
    \/ call_again
    \/ close_connections

SpecSchema == InitSchema /\ [][NextSchema]_vars

(* ------------- the results loop of run_verification on any samples ---- *)
\* rounds of the run whose results are aggregated
MaxStatSamples == 5
\* successful lags of a host, in milliseconds
Latencies == {10, 20, 30, 40, 50}
LagLists == UNION {[1..n -> Latencies] : n \in 0..MaxStatSamples}

\* a verifier after its last round: results holds, for the first host, any list of at
\* most MaxStatSamples successful lags (the list of another host is kept short)
InitStats ==
    /\ prog = "verifier"
    /\ replica_configs \in Configs
    /\ num_writes = 0 /\ num_reads = 0
    /\ samples = MaxStatSamples
    /\ pc = "round"
    /\ round = samples
    /\ ran = <<"setup">> \o [i \in 1..samples |-> "lag"]
    /\ primary_pool = "None"
    /\ replica_pools = <<>>
    /\ table = <<>> /\ table_exists = TRUE /\ serial = 1
    /\ primary_conn = "open"
    /\ replica_conns = SetupOutcome(Len(replica_configs) + 1).replicas
    /\ \E first \in LagLists, other \in {<<>>} \cup {<<x>> : x \in Latencies} :
         results = [h \in Range(replica_configs) |->
                      IF h = replica_configs[1] THEN first ELSE other]
    /\ nsamples = samples * Cardinality(Range(replica_configs))
    /\ Idle

NextStats ==
    \/ report
    \/ Verifier_close_connections

SpecStats == InitStats /\ [][NextStats]_vars

(* ------------- the as_completed loop of concurrent_read_test ---------- *)
\* what the clock may show as a task's elapsed time, whatever the task did: 0 when it
\* has not advanced between the two readings
ElapsedTimes == {0, 1, 2}

\* a tester inside concurrent_read_test, after write_data(1), when every task has ended:
\* each one either raised at getconn or returned any success count up to the size of
\* its batch and any elapsed time
InitReads ==
    /\ prog = "tester"
    /\ replica_configs \in Configs
    /\ num_writes = 1 /\ num_reads \in 0..MaxReads /\ samples = 0
    /\ pc = "read_wait"
    /\ ran = <<"setup", "schema", "verify", "write", "settle", "read">>
    /\ primary_pool = "open"
    /\ replica_pools = SetupOutcome(Len(replica_configs) + 1).replicas
    /\ table_exists = TRUE /\ table = InsertedRows(1, <<<<"a", 1>>>>) /\ serial = 2
    /\ record_ids = <<1>>
    /\ LET k == ReadsPerReplica(num_reads, Len(replica_configs)) IN
       /\ batch = [r \in Replicas |-> [i \in 1..k |-> 1]]
       /\ rpc \in [Replicas -> {"done", "raised"}]
       /\ attempts = [r \in Replicas |-> IF rpc[r] = "done" THEN k ELSE 0]
       /\ successful_reads \in [Replicas -> 0..k]
       /\ elapsed_time \in [Replicas -> ElapsedTimes]
       /\ \A r \in Replicas :
             rpc[r] = "raised" => successful_reads[r] = 0 /\ elapsed_time[r] = 0
    /\ failedAt = 0 /\ fault = NoFault /\ declined = FALSE
    /\ out = [p \in Pools |-> 0]
    /\ replica_status = <<>> /\ all_valid = TRUE
    /\ read_results = EmptyDict /\ primary_data = EmptyDict
    /\ cmp_i = 0 /\ reports = <<>> /\ all_consistent = TRUE
    /\ primary_conn = "None" /\ replica_conns = <<>>
    /\ round = 0 /\ results = [h \in Range(replica_configs) |-> <<>>] /\ nsamples = 0
    /\ now = Epoch /\ insert_time = 0 /\ commit_time = 0
    /\ delay = [r \in Replicas |-> Never]
    /\ ppc = [r \in Replicas |-> "idle"]
    /\ conn_of = [r \in Replicas |-> 0]
    /\ start_time = [r \in Replicas |-> 0]
    /\ wake = [r \in Replicas |-> 0]
    /\ polls = [r \in Replicas |-> 0]
    /\ ret = [r \in Replicas |-> None]
    /\ probe_end = [r \in Replicas |-> NotEnded]
    /\ sample = [r \in Replicas |-> 0]
    /\ lags = EmptyDict /\ stats = EmptyDict

NextReads ==
    \/ \E r \in Replicas : collect_read(r)
    \/ join_reads
    \/ close_connections

SpecReads == InitReads /\ [][NextReads]_vars

(* ======================= properties of the runs ======================= *)
NumReplicas == Len(replica_configs)
LagRunCompleted == prog = "verifier" /\ failedAt = 0 /\ pc \in {"finally", "closed"}
RoundCollected == prog = "verifier" /\ pc = "probing" /\ \A r \in Replicas : ppc[r] = "collected"

\* C1: a completed run_verification(S) over R replicas yields exactly R*S lag samples,
\* one for each (replica, round) pair: at the end of every round each replica's own
\* sample is in the lags dict, and the completed run has counted R*S of them.
C1_OneSamplePerReplicaPerRound ==
    /\ RoundCollected =>
         /\ Cardinality(DOMAIN lags) = NumReplicas
         /\ \A r \in Replicas : lags[replica_configs[r]] = sample[r]
    /\ LagRunCompleted => nsamples = NumReplicas * samples

\* C1 on replicas whose hosts are pairwise distinct (reference: the count is R*S there)
DistinctHosts == \A i, j \in Replicas : replica_configs[i] = replica_configs[j] => i = j
C1_HoldsOnDistinctHosts == DistinctHosts => C1_OneSamplePerReplicaPerRound

\* C2: in a replica's read batch a query failure does not abort the batch: a read task
\* that has returned has attempted every identifier of its batch.
C2_BatchNotAborted ==
    \A r \in Replicas : rpc[r] \in {"done", "collected"} => attempts[r] = Len(batch[r])

\* a report of a replica that returned all but exactly one of the primary's rows, the
\* others identical
MissingExactlyOne(rep) ==
    /\ rep.returned \subseteq DOMAIN primary_data
    /\ Cardinality(rep.returned) = Cardinality(DOMAIN primary_data) - 1
    /\ rep.differing = {}

\* C3 as stated: a replica missing exactly one of the K rows has the record-count
\* mismatch flagged and a per-record mismatch count >= 1.
C3_CountFlaggedAndMismatchCounted ==
    \A i \in DOMAIN reports :
        MissingExactlyOne(reports[i]) =>
            reports[i].count_mismatch /\ reports[i].mismatches >= 1

\* C3 amended: a replica missing exactly one of the K rows has the record-count mismatch
\* flagged and makes the overall result inconsistent; the per-record comparison is
\* skipped for it, so no per-record mismatch count is produced.
C3_CountFlaggedComparisonSkipped ==
    \A i \in DOMAIN reports :
        MissingExactlyOne(reports[i]) =>
            /\ reports[i].count_mismatch
            /\ reports[i].mismatches = NoCount
            /\ ~all_consistent

C3_Witness ==
    \E i \in DOMAIN reports :
        /\ MissingExactlyOne(reports[i])
        /\ Cardinality(reports[i].returned) >= 1
        /\ reports[i].count_mismatch

\* a report of a replica that returned exactly the primary's rows, payload and tag equal
Identical(rep) == rep.returned = DOMAIN primary_data /\ rep.differing = {}

\* C4: a replica that returns exactly the primary's rows gets zero field mismatches and
\* no record-count mismatch, and the overall result is consistent when every replica
\* does; a replica row whose payload or tag differs makes the overall result inconsistent.
C4_IdenticalIffConsistent ==
    /\ \A i \in DOMAIN reports :
          Identical(reports[i]) => reports[i].mismatches = 0 /\ ~reports[i].count_mismatch
    /\ (\A i \in DOMAIN reports : Identical(reports[i])) => all_consistent
    /\ (\E i \in DOMAIN reports : reports[i].differing # {}) => ~all_consistent

C4_Witness ==
    /\ pc = "summary"
    /\ Len(reports) = 2
    /\ Cardinality(DOMAIN primary_data) = ComparePrefix
    /\ Identical(reports[1])
    /\ reports[2].returned = DOMAIN primary_data
    /\ reports[2].differing # {}
    /\ reports[2].mismatches >= 1
    /\ ~all_consistent

\* C5: the comparator produces one result per replica and does not abort when the query
\* on one replica fails: once the primary's rows are fetched, a run in which nothing but
\* a replica's comparison query raised ends with a report for every replica.
C5_OneReportPerReplica ==
    (/\ prog = "tester" /\ pc \in {"finally", "closed"} /\ cmp_i >= 1
     /\ fault.what \in {"none", "query"})
        => Len(reports) = Len(replica_pools)

\* the connection to a replica endpoint failed, the primary and the replicas before it
\* were reached
ReplicaConnectFailed == fault.what = "connect" /\ fault.at \in Replicas
Measured == IF prog = "tester" THEN {"read", "consistency"} \subseteq Range(ran)
            ELSE "lag" \in Range(ran)
AllClosed ==
    /\ primary_pool # "open"
    /\ \A i \in DOMAIN replica_pools : replica_pools[i].st = "closed"
    /\ primary_conn # "open"
    /\ \A i \in DOMAIN replica_conns : replica_conns[i].st = "closed"
AllReturned == \A p \in Pools : out[p] = 0

\* C6 as stated: when connecting to one replica endpoint fails, measurement (reads,
\* consistency, lag sampling) still proceeds on the remaining replicas: the run that
\* ends has measured.
C6_MeasurementProceeds ==
    (pc = "closed" /\ ReplicaConnectFailed) => Measured

\* C6 amended: when connecting to one replica endpoint fails, setup_connections raises
\* and the run is aborted: no phase after the connection setup runs on any replica (no
\* write, no read, no comparison, no lag round), and once the run has ended every
\* connection or pool opened before the failure is closed.
C6_ConnectFailureAbortsRun ==
    ReplicaConnectFailed =>
        /\ ran = <<"setup">>
        /\ failedAt = 1
        /\ pc \in {"finally", "closed"}
        /\ record_ids = <<>> /\ read_results = EmptyDict /\ reports = <<>>
        /\ round = 0 /\ nsamples = 0
        /\ pc = "closed" => AllClosed

C6_Witness ==
    /\ pc = "closed"
    /\ fault = [what |-> "connect", at |-> 2]
    /\ Len(replica_configs) = 2
    /\ Len(replica_pools) = 1
    /\ replica_pools[1].st = "closed"
    /\ primary_pool = "closed"

\* C7: whichever phase fails, no later phase runs, and when the run ends every
\* connection or pool that was opened is closed and every connection checked out of a
\* pool has been returned; the same when the operator declines at the prompt.
C7_NoLaterPhaseAndAllReleased ==
    /\ failedAt # 0 => Len(ran) = failedAt /\ pc \in {"finally", "closed"}
    /\ declined => ran = <<"setup", "schema", "verify">> /\ pc \in {"finally", "closed"}
    /\ pc \in {"finally", "closed"} => AllReturned
    /\ pc = "closed" => AllClosed

C7_Witness ==
    /\ pc = "closed"
    /\ failedAt = 7 /\ ran[7] = "consistency"
    /\ fault = [what |-> "query", at |-> 2]
    /\ Len(replica_pools) = 2
    /\ AllClosed /\ AllReturned

\* a probe on a replica where the marker never becomes visible has returned
NeverVisibleDone(r) == prog = "verifier" /\ delay[r] = Never /\ ppc[r] \in {"done", "collected"}

\* C8 as stated: a probe on a replica where the marker never becomes visible returns a
\* timeout failure, no earlier than the timeout after it started, and its sample is
\* never a successful latency.
C8_TimeoutNoEarlierThanTimeout ==
    \A r \in Replicas :
        NeverVisibleDone(r) =>
            /\ ret[r] = None
            /\ probe_end[r].at - start_time[r] >= Timeout
            /\ ppc[r] = "collected" => ~IsSuccess(sample[r])

\* C8 amended: a probe on a replica where the marker never becomes visible terminates
\* (it issues at most ceil(Timeout / PollInterval) polls) and returns a failure: no
\* earlier than the timeout after it started unless a poll raised a query error, which
\* ends it at once; its sample is never a successful latency.
C8_FailureAtTimeoutOrQueryError ==
    \A r \in Replicas :
        /\ prog = "verifier" /\ polls[r] >= 1 => (polls[r] - 1) * PollInterval < Timeout
        /\ NeverVisibleDone(r) =>
            /\ ret[r] = None
            /\ probe_end[r].error \/ probe_end[r].at - start_time[r] >= Timeout
            /\ ppc[r] = "collected" => sample[r] = FailedLag /\ ~IsSuccess(sample[r])

C8_Witness ==
    \E r \in Replicas :
        /\ NeverVisibleDone(r) /\ ppc[r] = "collected"
        /\ ~probe_end[r].error
        /\ probe_end[r].at - start_time[r] >= Timeout
        /\ polls[r] * PollInterval >= Timeout

\* C9: if the marker becomes visible d after the commit and Timeout > d + PollInterval,
\* the reported latency L satisfies d <= L < d + PollInterval; a reported successful
\* latency is never negative and never exceeds the timeout.
C9_LatencyWithinOnePollInterval ==
    \A r \in Replicas :
        (prog = "verifier" /\ ppc[r] = "collected" /\ IsSuccess(sample[r])) =>
            /\ 0 <= sample[r] /\ sample[r] <= Timeout
            /\ (delay[r] # Never /\ Timeout > delay[r] + PollInterval) =>
                   (delay[r] <= sample[r] /\ sample[r] < delay[r] + PollInterval)

\* C9 with the latency counted from the commit instant instead of insert_time
\* (reference: the bound holds of detection instant - commit instant)
C9_HoldsFromCommitInstant ==
    \A r \in Replicas :
        (prog = "verifier" /\ ppc[r] \in {"done", "collected"} /\ Truthy(ret[r])) =>
            /\ 0 <= ret[r] - commit_time /\ ret[r] - commit_time <= Timeout
            /\ (delay[r] # Never /\ Timeout > delay[r] + PollInterval) =>
                   (delay[r] <= ret[r] - commit_time
                    /\ ret[r] - commit_time < delay[r] + PollInterval)

RECURSIVE SumLen(_, _)
SumLen(f, n) == IF n = 0 THEN 0 ELSE Len(f[n]) + SumLen(f, n - 1)

\* C10: for read budget B and R replicas the dispatcher hands the same number of lookups
\* to each replica, the total dispatched T satisfies T <= B < T + R (T = (B div R) * R),
\* so B mod R operations are never issued, and no task attempts more than its share.
C10_DispatchesBDivRPerReplica ==
    (prog = "tester" /\ ReadPhase) =>
        /\ \A r, q \in Replicas : Len(batch[r]) = Len(batch[q])
        /\ SumLen(batch, NumReplicas) <= num_reads
        /\ num_reads < SumLen(batch, NumReplicas) + NumReplicas
        /\ \A r \in Replicas : attempts[r] <= Len(batch[r])

C10_Witness ==
    /\ prog = "tester" /\ pc = "read_wait"
    /\ NumReplicas = 2 /\ num_reads = 3
    /\ SumLen(batch, NumReplicas) = 2
    /\ \A r \in Replicas : rpc[r] = "done" /\ attempts[r] = 1

(* ------------------------------ write_data ----------------------------- *)
\* the step in which write_data runs, from its call to its return or its raise
WriteStep == prog = "tester" /\ pc = "write" /\ pc' # pc
WriteFailed == prog = "tester" /\ failedAt # 0 /\ ran[failedAt] = "write"
WriteReturned == prog = "tester" /\ "write" \in Range(ran) /\ ~WriteFailed

\* C11: the bulk write is all-or-nothing: when one of the N inserts or the commit fails,
\* the primary's table is what it was before the call (rollback), the error ends the run
\* (no later phase) and the connection is back in the pool; the table gains N rows only
\* in the step in which every insert and the commit succeeded.
C11_BulkWriteAllOrNothing ==
    /\ [][WriteStep =>
            /\ out'[0] = 0
            /\ fault'.what = "insert" =>
                   /\ table' = table /\ record_ids' = record_ids
                   /\ pc' = "finally" /\ failedAt' = Len(ran')
            /\ table' # table => /\ fault'.what = "none" /\ pc' = "settle"
                                 /\ Len(table') = Len(table) + num_writes]_vars
    /\ [](WriteFailed => /\ pc \in {"finally", "closed"}
                         /\ ran[Len(ran)] = "write"
                         /\ table = <<>> /\ record_ids = <<>>)
    /\ [](WriteReturned => Len(table) = num_writes)

\* the second of two inserts failed after the first was executed
C11_Witness ==
    /\ WriteFailed /\ pc = "closed"
    /\ num_writes = 2 /\ fault = [what |-> "insert", at |-> 2]
    /\ serial = 2 /\ table = <<>> /\ out[0] = 0

\* C12: for every N >= 0 a write_data(N) that returned has returned exactly N
\* identifiers, pairwise distinct, in the order the rows were inserted, and the N rows
\* are committed (for N = 0: the empty list, over a committed empty batch).
C12_ReturnsNDistinctIdsInOrder ==
    WriteReturned =>
        /\ Len(record_ids) = num_writes
        /\ \A i, j \in DOMAIN record_ids : record_ids[i] = record_ids[j] => i = j
        /\ Len(table) = num_writes
        /\ \A j \in DOMAIN record_ids : record_ids[j] = table[j].id
        /\ \A i, j \in DOMAIN table : i < j => table[i].id < table[j].id

C12_Witness ==
    /\ WriteReturned /\ pc = "settle"
    /\ num_writes = 2 /\ record_ids = <<1, 2>>
    /\ Len(table) = 2

(* ------------------------- the 95th percentile -------------------------- *)
Reported == prog = "verifier" /\ "report" \in Range(ran)
\* k = floor(n * 0.95): the integer k with 100 k <= 95 n < 100 (k + 1)
IsFloor95(k, n) == 100 * k <= 95 * n /\ 95 * n < 100 * (k + 1)
\* v is the element at (0-based) index k of ls sorted ascending
IsKthSmallest(v, k, ls) ==
    /\ v \in Range(ls)
    /\ Cardinality({i \in DOMAIN ls : ls[i] < v}) <= k
    /\ Cardinality({i \in DOMAIN ls : ls[i] <= v}) > k

\* C13: for a host with n >= 1 successful latencies the reported p95 is the element at
\* index floor(n * 0.95) of the latencies sorted ascending (the maximum when n <= 1);
\* the index is within bounds, min <= p95 <= max, the latencies 10, 20, 30, 40, 50 give
\* 50 and a single sample gives that sample.
C13_P95IsElementAtFloorIndex ==
    Reported =>
        \A h \in DOMAIN stats :
            LET ls == results[h]
                n == Len(ls)
                st == stats[h]
            IN  n >= 1 =>
                  /\ ~st.failed /\ st.n = n
                  /\ \E k \in 0..(n - 1) :
                        /\ IsFloor95(k, n)
                        /\ IsKthSmallest(st.p95_lag, k, ls)
                  /\ n = 1 => st.p95_lag = ls[1] /\ st.p95_lag = st.max_lag
                  /\ \A i \in DOMAIN ls : st.min_lag <= ls[i] /\ ls[i] <= st.max_lag
                  /\ st.min_lag <= st.p95_lag /\ st.p95_lag <= st.max_lag
                  /\ (n = 5 /\ Range(ls) = {10, 20, 30, 40, 50}) => st.p95_lag = 50

C13_Witness ==
    /\ Reported
    /\ results["h1"] = <<50, 10, 40, 20, 30>>
    /\ stats["h1"].p95_lag = 50
    /\ stats["h1"].min_lag = 10

(* --------------------------- order of the phases ------------------------ *)
\* the place of each phase in the order SchemaSetup, RoleVerification, Write, Settle,
\* ConcurrentRead, Consistency, LagMeasurement, Report (after the connection setup)
PhaseRank == [setup |-> 0, schema |-> 1, verify |-> 2, write |-> 3, settle |-> 4, read |-> 5,
              consistency |-> 6, lag |-> 7, summary |-> 8, report |-> 8]
ReadTaskRunning == \E r \in Replicas : rpc[r] # "idle"
ProbeRunning == \E r \in Replicas : ppc[r] # "idle"

\* C14: the phases of a run begin in the strict order SchemaSetup, RoleVerification,
\* Write, Settle, ConcurrentRead, Consistency, LagMeasurement (its rounds one after the
\* other), Report; a phase begins only when no per-replica task is running, a phase
\* with per-replica tasks is left only when every one of its tasks has ended, and tasks
\* run only within their own phase.
C14_PhasesInOrderWithBarriers ==
    /\ [](\A i, j \in DOMAIN ran :
             i < j => \/ PhaseRank[ran[i]] < PhaseRank[ran[j]]
                      \/ ran[i] = "lag" /\ ran[j] = "lag")
    /\ [](ReadTaskRunning => ReadPhase /\ ran[Len(ran)] = "read")
    /\ [](ProbeRunning => pc = "probing" /\ ran[Len(ran)] = "lag")
    /\ [](~ReadPhase => AllReturned)
    /\ [][ran' # ran => ~ReadTaskRunning /\ ~ProbeRunning]_vars
    /\ [][(ReadPhase /\ ~ReadPhase') =>
             /\ \A r \in Replicas : rpc[r] \in {"done", "raised", "collected"}
             /\ AllReturned]_vars
    /\ [][(pc = "probing" /\ pc' # "probing") =>
             \A r \in Replicas : ppc[r] = "collected"]_vars

\* a run that went through every phase of run_full_test, its read tasks joined
C14_Witness ==
    /\ prog = "tester" /\ pc = "closed" /\ NumReplicas = 2
    /\ ran = <<"setup", "schema", "verify", "write", "settle", "read", "consistency", "summary">>
    /\ num_reads = 3 /\ DOMAIN read_results = {"h1", "h2"}

(* --------------------------- role verification -------------------------- *)
\* verify_replica_status has returned (an EOFError at the prompt is raised after it)
VerifyReturned ==
    /\ prog = "tester" /\ "verify" \in Range(ran)
    /\ ~(failedAt # 0 /\ ran[failedAt] = "verify" /\ fault.what # "input")
\* the verification failed and the operator is being asked
Asked == prog = "tester" /\ pc = "prompt"

\* C15: role verification checks every replica, also after a bad one, and fails exactly
\* when some replica is not in recovery or its status query raised; when it failed and
\* the operator does not override, the run ends before the Write phase and no row is
\* written to the primary; the Write phase is reached only if the verification passed
\* or was overridden.
C15_WriteOnlyIfVerifiedOrOverridden ==
    /\ []((prog = "tester" /\ replica_status # <<>>) =>
            /\ VerifyReturned
            /\ DOMAIN replica_status = Replicas
            /\ \A i \in Replicas : replica_status[i] \in {"recovery", "primary", "error"}
            /\ all_valid = (\A i \in Replicas : replica_status[i] = "recovery")
            /\ Asked = ~all_valid)
    /\ [](Asked => replica_status # <<>> /\ table = <<>>)
    \* the operator is asked only after a failed verification, and any outcome but 'y'
    \* (an answer other than 'y', no answer) ends the run there
    /\ [][(Asked /\ (declined' \/ fault'.what = "input")) =>
             /\ ~all_valid
             /\ pc' = "finally" /\ ran' = ran /\ table' = table]_vars
    /\ []((prog = "tester" /\ (declined \/ fault.what = "input")) =>
            /\ pc \in {"finally", "closed"}
            /\ ran = <<"setup", "schema", "verify">>
            /\ table = <<>> /\ record_ids = <<>>)
    \* the Write phase is entered from a verification that passed or from a 'y'
    /\ [][(prog = "tester" /\ pc # "write" /\ pc' = "write") =>
             \/ pc = "verify" /\ all_valid' /\ replica_status' # <<>>
             \/ Asked /\ ~declined' /\ fault'.what = "none"]_vars
    /\ []((prog = "tester" /\ "write" \in Range(ran)) => VerifyReturned /\ ~declined)

C15_Witness ==
    /\ prog = "tester" /\ pc = "closed" /\ NumReplicas = 2
    /\ declined
    /\ ran = <<"setup", "schema", "verify">>
    /\ table = <<>>

\* a bad first replica does not keep the second from being checked
C15_SecondCheckedAfterBadFirst ==
    /\ Asked /\ ~all_valid
    /\ replica_status = <<"primary", "error">>

(* ----------------------------- schema setup ----------------------------- *)
\* the last call of create_test_schema has returned
SchemaReturned ==
    prog = "tester" /\ SchemaRuns >= 1 /\ (pc = "verify" \/ (pc = "schema" /\ failedAt = 0))

\* C16: after create_test_schema has run any number of times in succession (>= 1), also
\* over a table that held rows, the test table exists and holds no row; a call that
\* fails leaves the database as it was (rollback) and the connection in the pool.
C16_SchemaSetupIdempotent ==
    /\ [](SchemaReturned => table_exists /\ table = <<>> /\ out[0] = 0)
    /\ [][(prog = "tester" /\ pc = "schema" /\ pc' = "finally") =>
             /\ table' = table /\ table_exists' = table_exists
             /\ out'[0] = 0]_vars

\* the third call in succession has returned
C16_Witness ==
    /\ prog = "tester" /\ pc = "verify"
    /\ ran = <<"setup", "schema", "schema", "schema">>
    /\ table_exists /\ table = <<>>

\* a call over a table that holds two rows is about to be made
C16_OverTableWithRows ==
    /\ prog = "tester" /\ pc = "schema" /\ SchemaRuns = 0
    /\ Len(table) = 2

(* ------------------------ query error during a probe -------------------- *)
ProbeReturned(r) == prog = "verifier" /\ ppc[r] \in {"done", "collected"}
QueryErrored(r) == prog = "verifier" /\ probe_end[r].error
TimedOut(r) == ProbeReturned(r) /\ ret[r] = None /\ ~probe_end[r].error

C18_ProbesAfterCommitRoundsDisjoint ==
    /\ [](ProbeRunning =>
            /\ pc = "probing" /\ round >= 1
            /\ Cardinality({i \in DOMAIN ran : ran[i] = "lag"}) = round
            /\ insert_time <= commit_time
            /\ \A r \in Replicas : ppc[r] # "idle" /\ commit_time <= start_time[r])
    /\ [][round' # round =>
             /\ round' = round + 1
             /\ ~ProbeRunning
             /\ fault'.what = "insert" => ~ProbeRunning']_vars
    /\ [][(pc = "probing" /\ pc' # "probing") =>
             /\ \A r \in Replicas : ppc[r] = "collected"
             /\ ~ProbeRunning']_vars

\* the second round is probing, after a first round whose probes were all collected
C18_Witness ==
    /\ prog = "verifier" /\ pc = "probing" /\ round = 2 /\ NumReplicas = 2
    /\ commit_time > insert_time
    /\ \E r \in Replicas : ppc[r] = "wait" /\ polls[r] >= 1

\* C19: the reference instant of a lag round is the commit instant: a reported latency
\* equals the detection instant minus the instant the primary acknowledged the commit,
\* and so excludes the time the insert and the commit took.
C19_ReferenceIsCommitInstant ==
    /\ (prog = "verifier" /\ pc = "probing") => insert_time = commit_time
    /\ \A r \in Replicas :
          (prog = "verifier" /\ ppc[r] = "collected" /\ Truthy(ret[r])) =>
              sample[r] = ret[r] - commit_time

\* what the code reports instead (reference): detection instant minus the instant taken
\* before the INSERT was issued, i.e. the commit-based latency plus the time of the
\* insert and the commit
C19_LatencyCountsFromBeforeInsert ==
    \A r \in Replicas :
        (prog = "verifier" /\ ppc[r] = "collected" /\ Truthy(ret[r])) =>
            /\ sample[r] = ret[r] - insert_time
            /\ sample[r] = (ret[r] - commit_time) + (commit_time - insert_time)
            /\ commit_time - insert_time \in InsertDurs

(* --------------------------- use of connections ------------------------- *)
\* the running probes that poll connection c of replica_conns
Using(c) == {r \in Replicas : ppc[r] = "wait" /\ conn_of[r] = c}

\* C20: each replica connection is used by at most one running task: no two running
\* probes poll the same connection, each running read task holds one connection checked
\* out of its own pool and no pool has two checked out; the primary connection is not
\* used while probes run (a round's insert is issued only when no probe exists), nor
\* the primary pool while read tasks run.
C20_OneTaskPerConnection ==
    /\ [](prog = "verifier" =>
            /\ \A c \in DOMAIN replica_conns : Cardinality(Using(c)) <= 1
            /\ \A r \in Replicas :
                  ppc[r] # "idle" => /\ conn_of[r] \in DOMAIN replica_conns
                                     /\ replica_conns[conn_of[r]].st = "open")
    /\ [](prog = "tester" =>
            /\ \A r \in Replicas : out[r] = IF rpc[r] = "run" THEN 1 ELSE 0
            /\ ReadTaskRunning => out[0] = 0)
    /\ [][round' # round => ~ProbeRunning]_vars

\* two probes are polling, each on its own connection
C20_Witness ==
    /\ prog = "verifier" /\ NumReplicas = 2
    /\ \A r \in Replicas : ppc[r] = "wait" /\ polls[r] >= 1
    /\ conn_of[1] # conn_of[2]
    /\ Cardinality(Using(1)) = 1 /\ Cardinality(Using(2)) = 1
(* ------------------------ isolation of probe failures ------------------- *)
\* the probe of r has returned a failure (query error or timeout)
ProbeFailed(r) == ProbeReturned(r) /\ ret[r] = None
\* the verifier's run was ended by an exception
LagRunAborted == prog = "verifier" /\ failedAt # 0

\* C21: a probe that times out or fails is recorded as a failure sample only. It raises
\* no run-level error (a lag run is only ever aborted by a connect or an insert failure,
\* and a step taken while probes run aborts nothing); it does not cancel or shorten the
\* probes of its siblings (a step that ends one probe leaves every other probe as it
\* was, a probe that returned without a query error either saw the marker at the instant
\* it returns or ran for the whole timeout counted from its own start); and it does not
\* keep the remaining rounds from running (a round with failures returns to the loop of
\* run_verification, and a run that was not aborted has run every round).
C21_ProbeFailureIsolated ==
    /\ [](LagRunAborted => fault.what \in {"connect", "insert"})
    /\ [][(prog = "verifier" /\ pc = "probing") =>
             /\ failedAt' = failedAt /\ fault' = fault
             /\ pc' \in {"probing", "round"}]_vars
    /\ [](\A r \in Replicas :
            /\ (ProbeFailed(r) /\ ppc[r] = "collected") => sample[r] = FailedLag
            /\ (ProbeReturned(r) /\ ~probe_end[r].error) =>
                  /\ probe_end[r].at >= start_time[r]
                  /\ IF ret[r] = None
                     THEN probe_end[r].at - start_time[r] >= Timeout
                     ELSE ret[r] = probe_end[r].at /\ Visible(r, ret[r]))
    /\ [][\A r, q \in Replicas :
             (pc = "probing" /\ pc' = "probing" /\ r # q
                /\ ppc[r] = "wait" /\ ppc'[r] = "done") =>
                  /\ ppc'[q] = ppc[q] /\ wake'[q] = wake[q] /\ ret'[q] = ret[q]
                  /\ polls'[q] = polls[q] /\ start_time'[q] = start_time[q]
                  /\ probe_end'[q] = probe_end[q]]_vars
    /\ []((prog = "verifier" /\ pc \in {"finally", "closed"} /\ ~LagRunAborted) =>
            /\ round = samples
            /\ Cardinality({i \in DOMAIN ran : ran[i] = "lag"}) = samples)

\* the second round runs after a first round in which replica 1 gave no sample; in it
\* the probe of replica 1 was ended by a query error at its first poll, and the probe
\* of replica 2 went on polling and saw the marker later
C21_Witness ==
    /\ prog = "verifier" /\ pc = "probing" /\ round = 2 /\ failedAt = 0
    /\ replica_configs = <<"h1", "h2">>
    /\ results["h1"] = <<>>
    /\ QueryErrored(1) /\ ProbeFailed(1) /\ polls[1] = 1
    /\ ppc[2] = "collected" /\ Truthy(ret[2]) /\ polls[2] >= 2
    /\ ret[2] > probe_end[1].at
(* ------------------------- success counts of the report ----------------- *)
\* the entry of the results dict / of the report that stands for replica r
HostOf(r) == replica_configs[r]
\* 1 if the probe of r detected the marker in the round that is ending, else 0
Detected(r) == IF Truthy(ret[r]) THEN 1 ELSE 0
RoundReturns == prog = "verifier" /\ pc = "probing" /\ pc' = "round"

\* C22: in the lag report the success count of every replica is the number of rounds in
\* which its probe detected the marker (every round adds 1 to the replica's count if
\* its probe detected the marker and 0 if not; the count lies in 0..rounds attempted),
\* it is reported out of the rounds attempted, the replica is reported as failed
\* entirely exactly when the count is zero, and with its count and statistics otherwise.
C22_SuccessCountIsRoundsDetected ==
    /\ [][RoundReturns =>
             \A r \in Replicas :
                 Len(results'[HostOf(r)]) = Len(results[HostOf(r)]) + Detected(r)]_vars
    /\ [](prog = "verifier" =>
            \A r \in Replicas : Len(results[HostOf(r)]) \in 0..round)
    /\ [](Reported =>
            \A r \in Replicas :
                LET st == stats[HostOf(r)] IN
                /\ st.n = Len(results[HostOf(r)])
                /\ st.out_of = samples /\ round = samples
                /\ st.failed = (st.n = 0)
                /\ st.n >= 1 => /\ st.min_lag # None /\ st.max_lag # None
                                /\ st.p95_lag # None /\ st.total # None)

\* C22 on replicas whose hosts are pairwise distinct (reference: it holds there)
C22_HoldsOnDistinctHosts ==
    /\ [][(DistinctHosts /\ RoundReturns) =>
             \A r \in Replicas :
                 Len(results'[HostOf(r)]) = Len(results[HostOf(r)]) + Detected(r)]_vars
    /\ []((DistinctHosts /\ Reported) =>
            \A r \in Replicas :
                LET st == stats[HostOf(r)] IN
                /\ st.n = Len(results[HostOf(r)]) /\ st.n \in 0..samples
                /\ st.out_of = samples /\ round = samples
                /\ st.failed = (st.n = 0))

\* (reference) two replicas of one host at the end of a round: the probe of replica 1
\* detected the marker, the probe of replica 2 timed out and was collected last, and
\* the host's entry of the lags dict is the failure indicator
C22_DetectedButFiledAsFailure ==
    /\ RoundCollected /\ replica_configs = <<"h1", "h1">>
    /\ Truthy(ret[1]) /\ TimedOut(2)
    /\ lags["h1"] = FailedLag
(* --------------------------- outcomes of the reads ---------------------- *)
\* concurrent_read_test has returned its results
ReadPhaseCompleted ==
    /\ prog = "tester" /\ "read" \in Range(ran) /\ ~ReadPhase
    /\ ~(failedAt # 0 /\ ran[failedAt] = "read")
\* q is the quotient s / elapsed, and 0 when elapsed is 0
IsThroughput(q, s, elapsed) ==
    /\ q.den > 0
    /\ IF elapsed = 0 THEN q.num = 0 ELSE q.num * elapsed = s * q.den

\* C23: a completed concurrent read phase yields exactly one read outcome per replica
\* (as many outcomes as replicas, the outcome of each replica under its own key being
\* what its own task returned), each outcome's success count s satisfies
\* 0 <= s <= B div R, and its throughput is s / elapsed, 0 when elapsed is 0.
C23_OneReadOutcomePerReplica ==
    /\ [](ReadPhaseCompleted =>
            /\ Cardinality(DOMAIN read_results) = NumReplicas
            /\ \A r \in Replicas :
                  LET o == read_results[HostOf(r)] IN
                  /\ o.successful_reads \in 0..(num_reads \div NumReplicas)
                  /\ IsThroughput(o.reads_per_second, o.successful_reads, o.elapsed_time))
    /\ [][\A r \in Replicas :
             (prog = "tester" /\ pc = "read_wait" /\ pc' = "consistency") =>
                 /\ read_results'[HostOf(r)].successful_reads = successful_reads[r]
                 /\ read_results'[HostOf(r)].elapsed_time = elapsed_time[r]]_vars

\* C23 on replicas whose hosts are pairwise distinct (reference: it holds there, under
\* Spec and, for any elapsed times, under SpecReads)
C23_HoldsOnDistinctHosts ==
    /\ []((DistinctHosts /\ ReadPhaseCompleted) =>
            /\ Cardinality(DOMAIN read_results) = NumReplicas
            /\ \A r \in Replicas :
                  LET o == read_results[HostOf(r)] IN
                  /\ o.successful_reads \in 0..(num_reads \div NumReplicas)
                  /\ IsThroughput(o.reads_per_second, o.successful_reads, o.elapsed_time))
    /\ [][\A r \in Replicas :
             (DistinctHosts /\ prog = "tester" /\ pc = "read_wait" /\ pc' = "consistency") =>
                 /\ read_results'[HostOf(r)].successful_reads = successful_reads[r]
                 /\ read_results'[HostOf(r)].elapsed_time = elapsed_time[r]]_vars

\* (reference) a completed read phase over two replicas of one host: one outcome
C23_TwoReplicasOneOutcome ==
    /\ ReadPhaseCompleted /\ replica_configs = <<"h1", "h1">>
    /\ Cardinality(DOMAIN read_results) = 1

\* (reference) successes counted while the clock showed no elapsed time: throughput 0
C23_ZeroElapsedZeroThroughput ==
    /\ ReadPhaseCompleted /\ DistinctHosts
    /\ \E h \in DOMAIN read_results :
          /\ read_results[h].successful_reads > 0 /\ read_results[h].elapsed_time = 0
          /\ read_results[h].reads_per_second.num = 0
(* ----------------------- workers and connections at close --------------- *)
\* a per-replica worker (read task or probe) has been submitted and has not returned
WorkerRunning ==
    \/ \E r \in Replicas : rpc[r] \in {"submitted", "run"}
    \/ \E r \in Replicas : ppc[r] = "wait"
\* the finally clause is reached: close_connections is about to run, or has run
AtClose == pc \in {"finally", "closed"}

\* C24: when close_connections runs, on success or after any failure (a worker raising
\* inside a fan-out included), no per-replica worker is still running and no pooled
\* connection is checked out; no pool ever has more than its getconn calls returned
\* nor more than one connection out; and control leaves a fan-out (the read phase, a
\* round of probes) only when every worker of it has ended and returned its connection.
C24_AtCloseNoWorkerNoConnectionOut ==
    /\ [](AtClose =>
            /\ ~WorkerRunning
            /\ \A r \in Replicas : rpc[r] = "idle" /\ ppc[r] = "idle"
            /\ \A p \in Pools : out[p] = 0)
    /\ [](\A p \in Pools : out[p] \in {0, 1})
    /\ [][(ReadPhase /\ ~ReadPhase') =>
             /\ \A r \in Replicas : rpc[r] \in {"done", "raised", "collected"} /\ out[r] = 0
             /\ ~WorkerRunning']_vars
    /\ [][(pc = "probing" /\ pc' # "probing") =>
             /\ \A r \in Replicas : ppc[r] = "collected"
             /\ ~WorkerRunning']_vars

\* the finally clause is reached after a read task raised inside the fan-out, the task
\* of the other replica having executed its lookup, returned and been collected
C24_Witness ==
    /\ prog = "tester" /\ pc = "finally" /\ NumReplicas = 2 /\ DistinctHosts
    /\ failedAt # 0 /\ ran[failedAt] = "read" /\ fault.what = "task"
    /\ Cardinality(DOMAIN read_results) = 1
    /\ \E h \in DOMAIN read_results : read_results[h].elapsed_time = 1
    /\ ~WorkerRunning
    /\ \A p \in Pools : out[p] = 0
====
